---- MODULE Spec2Model ----
(***************************************************************************)
(* Retro image converter: nearest-colour matching, Floyd-Steinberg and     *)
(* Bayer dithering, the resize height rule and the three presets of        *)
(* image_processor.py, with the gameboy branch of retro_converter.py.      *)
(*                                                                         *)
(* A channel of the float64 working array is held as an integer number of  *)
(* sixteenths (Scale): every value the code computes on uint8 input is a   *)
(* multiple of 1/16 (Bayer thresholds are k * 255 / 16, the offset 127.5), *)
(* so the arithmetic below is the code's float64 arithmetic, exactly.      *)
(***************************************************************************)
EXTENDS Integers, Sequences, FiniteSets, TLC

VARIABLES
    call,        \* the function entered and its arguments (matrix_size 0: it has none)
    palette,     \* the palette argument
    image,       \* the image argument: [width, height, px], px[y][x] a uint8 triple
    img_array,   \* the float64 working array, in sixteenths
    y, x,        \* the scan cursor of the two nested loops
    todo,        \* SpecShuffle: positions not yet processed
    pc,          \* where the call stands
    result,      \* what the call returned (None before, and when it raised)
    enhanced,    \* SpecPreset: the size of the image a preset hands to its ditherer
    chain,       \* SpecPreset: the functions entered, in order
    iteration    \* SpecPreset: the last loop iteration, [y, x, read, stored]

preset_vars == <<enhanced, chain, iteration>>

vars == <<call, palette, image, img_array, y, x, todo, pc, result, enhanced, chain, iteration>>

None == "None"

NoPreset == enhanced = None /\ chain = << >> /\ iteration = None

----------------------------------------------------------------------------
(* Palettes *)

GAMEBOY_PALETTE ==
    << <<15, 56, 15>>, <<48, 98, 48>>, <<139, 172, 15>>, <<155, 188, 15>> >>

DOT_MATRIX_PALETTE == << <<0, 0, 0>>, <<255, 255, 255>> >>

APPLE_II_PALETTE ==
    << <<0, 0, 0>>, <<114, 38, 64>>, <<64, 51, 127>>, <<228, 52, 254>>,
       <<14, 89, 64>>, <<128, 128, 128>>, <<27, 154, 254>>, <<191, 179, 255>>,
       <<64, 76, 0>>, <<228, 101, 1>>, <<128, 128, 128>>, <<241, 166, 191>>,
       <<27, 203, 1>>, <<191, 204, 128>>, <<141, 217, 191>>, <<255, 255, 255>> >>

CGA_PALETTE ==
    << <<0, 0, 0>>, <<0, 0, 170>>, <<0, 170, 0>>, <<0, 170, 170>>,
       <<170, 0, 0>>, <<170, 0, 170>>, <<170, 85, 0>>, <<170, 170, 170>>,
       <<85, 85, 85>>, <<85, 85, 255>>, <<85, 255, 85>>, <<85, 255, 255>>,
       <<255, 85, 85>>, <<255, 85, 255>>, <<255, 255, 85>>, <<255, 255, 255>> >>

C64_PALETTE ==
    << <<0, 0, 0>>, <<255, 255, 255>>, <<136, 0, 0>>, <<170, 255, 238>>,
       <<204, 68, 204>>, <<0, 204, 85>>, <<0, 0, 170>>, <<238, 238, 119>>,
       <<221, 136, 85>>, <<102, 68, 0>>, <<255, 119, 119>>, <<51, 51, 51>>,
       <<119, 119, 119>>, <<170, 255, 102>>, <<0, 136, 255>>, <<187, 187, 187>> >>

ZX_SPECTRUM_PALETTE ==
    << <<0, 0, 0>>, <<0, 0, 192>>, <<192, 0, 0>>, <<192, 0, 192>>,
       <<0, 192, 0>>, <<0, 192, 192>>, <<192, 192, 0>>, <<192, 192, 192>>,
       <<0, 0, 0>>, <<0, 0, 255>>, <<255, 0, 0>>, <<255, 0, 255>>,
       <<0, 255, 0>>, <<0, 255, 255>>, <<255, 255, 0>>, <<255, 255, 255>> >>

\* bayer_matrix_4x4 before the division by 16.0, indexed [y % 4][x % 4] from 0
bayer_matrix_4x4 ==
    [r \in 0..3 |-> [c \in 0..3 |->
        << <<0, 8, 2, 10>>, <<12, 4, 14, 6>>, <<3, 11, 1, 9>>, <<15, 7, 13, 5>> >>[r + 1][c + 1]]]

\* sixteenths per unit of a float64 channel
Scale == 16

\* the side of the Bayer matrix
BayerSide == 4

----------------------------------------------------------------------------
(* Inputs *)

\* two entries equidistant from (100,100,100); an empty palette
TiePalette == << <<90, 100, 100>>, <<110, 100, 100>> >>
EmptyPalette == << >>

Palettes ==
    {GAMEBOY_PALETTE, DOT_MATRIX_PALETTE, APPLE_II_PALETTE, TiePalette, EmptyPalette}

SamplePixels ==
    { <<128, 128, 128>>, <<255, 255, 255>>, <<100, 100, 100>>, <<200, 30, 60>> }

\* arbitrary images have at most MaxPixels pixels, uniform ones a side up to MaxTile
MaxPixels == 4
MaxTile == 4

Shapes == {s \in (1..MaxPixels) \X (1..MaxPixels) : s[1] * s[2] <= MaxPixels}

MkImage(w, h, px) == [width |-> w, height |-> h, px |-> px]

Uniform(w, h, p) == MkImage(w, h, [r \in 0..(h - 1) |-> [c \in 0..(w - 1) |-> p]])

SmallImages ==
    UNION {{MkImage(s[1], s[2], px) : px \in [0..(s[2] - 1) -> [0..(s[1] - 1) -> SamplePixels]]}
             : s \in Shapes}

Images == SmallImages \cup {Uniform(n, n, p) : n \in 1..MaxTile, p \in SamplePixels}

Positions(img) == (0..(img.height - 1)) \X (0..(img.width - 1))

\* pixels handed to _find_closest_color, in sixteenths: 127.5 is 2040
MatchChannels == {0, 100 * Scale, 2040, 128 * Scale, 255 * Scale}
MatchPixels == MatchChannels \X MatchChannels \X MatchChannels

MatrixSizes == {2, 4, 8}

Calls ==
    {[fn |-> "floyd_steinberg_dither", matrix_size |-> 0],
     [fn |-> "bayer_dither", matrix_size |-> 0]}
    \cup {[fn |-> "ordered_dither", matrix_size |-> m] : m \in MatrixSizes}

----------------------------------------------------------------------------
(* _find_closest_color *)

\* np.sum((pixel - np.array(color)) ** 2), in units of 1/Scale^2
Distance(pixel, color) ==
    (pixel[1] - color[1] * Scale) * (pixel[1] - color[1] * Scale)
    + (pixel[2] - color[2] * Scale) * (pixel[2] - color[2] * Scale)
    + (pixel[3] - color[3] * Scale) * (pixel[3] - color[3] * Scale)

\* min_distance = float('inf') of line 198, as a value no distance takes
Inf == -1

\* the comparison of line 203
CloserOrEqual(distance, min_distance) == min_distance = Inf \/ distance <= min_distance
Closer(distance, min_distance) == min_distance = Inf \/ distance < min_distance

\* the loop of lines 201-205 from entry i on: the index of closest_color
RECURSIVE ClosestFrom(_, _, _, _, _)
ClosestFrom(pixel, pal, i, closest, min_distance) ==
    IF i > Len(pal) THEN closest
    ELSE IF Closer(Distance(pixel, pal[i]), min_distance)
         THEN ClosestFrom(pixel, pal, i + 1, i, Distance(pixel, pal[i]))
         ELSE ClosestFrom(pixel, pal, i + 1, closest, min_distance)

\* closest_color = palette[0] raises IndexError on an empty list (line 199);
\* otherwise the closest colour, as a float64 triple
IndexError == [raised |-> TRUE, color |-> None]
find_closest_color_default(pixel, pal) ==
    IF Len(pal) = 0 THEN [raised |-> FALSE, color |-> <<0, 0, 0>>]
    ELSE LET c == pal[ClosestFrom(pixel, pal, 1, 1, Inf)]
         IN  [raised |-> FALSE, color |-> <<c[1] * Scale, c[2] * Scale, c[3] * Scale>>]
find_closest_color(pixel, pal) ==
    IF Len(pal) = 0 THEN IndexError
    ELSE LET c == pal[ClosestFrom(pixel, pal, 1, 1, Inf)]
         IN  [raised |-> FALSE, color |-> <<c[1] * Scale, c[2] * Scale, c[3] * Scale>>]

----------------------------------------------------------------------------
(* the ditherers *)

\* np.array(image, dtype=np.float64)
ToFloatArray(img) ==
    [r \in 0..(img.height - 1) |-> [c \in 0..(img.width - 1) |->
        <<img.px[r][c][1] * Scale, img.px[r][c][2] * Scale, img.px[r][c][3] * Scale>>]]

Clip(v) == IF v < 0 THEN 0 ELSE IF v > 255 * Scale THEN 255 * Scale ELSE v

\* np.clip(img_array, 0, 255).astype(np.uint8), Image.fromarray
ToUint8Image(img, arr) ==
    MkImage(img.width, img.height,
        [r \in 0..(img.height - 1) |-> [c \in 0..(img.width - 1) |->
            <<Clip(arr[r][c][1]) \div Scale, Clip(arr[r][c][2]) \div Scale,
              Clip(arr[r][c][3]) \div Scale>>]])

\* error * k/16, added to the pixel at (r, c)
AddError(arr, r, c, error, k) ==
    [arr EXCEPT ![r][c] = <<@[1] + (error[1] * k) \div 16, @[2] + (error[2] * k) \div 16,
                            @[3] + (error[3] * k) \div 16>>]

\* the value old_pixel has when line 150 reads it. old_pixel = img_array[y, x]
\* is a numpy view of the array's row, not a copy: line 148 has by then stored
\* new_pixel through it.
OldPixelCopied(before, after, r, c) == before[r][c]
OldPixelAtError(before, after, r, c) == after[r][c]

\* the body of the Floyd-Steinberg loop at (r, c), lines 146-160:
\* [raised, arr], arr the array after the iteration
FloydSteinbergPixel(arr, pal, w, h, r, c) ==
    LET found == find_closest_color(arr[r][c], pal)
        new_pixel == found.color
        stored == [arr EXCEPT ![r][c] = new_pixel]
        old_pixel == OldPixelAtError(arr, stored, r, c)
        error == <<old_pixel[1] - new_pixel[1], old_pixel[2] - new_pixel[2],
                   old_pixel[3] - new_pixel[3]>>
        a1 == IF c + 1 < w THEN AddError(stored, r, c + 1, error, 7) ELSE stored
        a2 == IF r + 1 < h /\ c - 1 >= 0 THEN AddError(a1, r + 1, c - 1, error, 3) ELSE a1
        a3 == IF r + 1 < h THEN AddError(a2, r + 1, c, error, 5) ELSE a2
        a4 == IF r + 1 < h /\ c + 1 < w THEN AddError(a3, r + 1, c + 1, error, 1) ELSE a3
    IN  IF found.raised THEN [raised |-> TRUE, arr |-> arr] ELSE [raised |-> FALSE, arr |-> a4]

\* threshold - 127.5 at (r, c), in sixteenths
BayerNoiseUncentred(r, c) == bayer_matrix_4x4[r % BayerSide][c % BayerSide] * 255
BayerNoise(r, c) == bayer_matrix_4x4[r % BayerSide][c % BayerSide] * 255 - (255 * Scale) \div 2

\* pixel_with_noise of lines 177-182
PixelWithNoise(pixel, r, c) ==
    <<Clip(pixel[1] + BayerNoise(r, c)), Clip(pixel[2] + BayerNoise(r, c)),
      Clip(pixel[3] + BayerNoise(r, c))>>

\* what line 186 stores at (r, c) for the pixel read at line 178
BayerStoredNoise(pixel, pal, r, c) ==
    [raised |-> Len(pal) = 0, color |-> PixelWithNoise(pixel, r, c)]
BayerStored(pixel, pal, r, c) == find_closest_color(PixelWithNoise(pixel, r, c), pal)

\* the body of the Bayer loop at (r, c), lines 177-186: [raised, arr]
BayerPixelDiffusing(arr, pal, r, c) ==
    LET found == BayerStored(arr[r][c], pal, r, c)
        e == arr[r][c][1] - found.color[1]
        spilt == IF c + 1 \in DOMAIN arr[r]
                 THEN [arr EXCEPT ![r][c + 1] = <<@[1] + e, @[2] + e, @[3] + e>>]
                 ELSE arr
    IN  IF found.raised THEN [raised |-> TRUE, arr |-> arr]
        ELSE [raised |-> FALSE, arr |-> [spilt EXCEPT ![r][c] = found.color]]
BayerPixel(arr, pal, r, c) ==
    LET found == BayerStored(arr[r][c], pal, r, c)
    IN  IF found.raised THEN [raised |-> TRUE, arr |-> arr]
        ELSE [raised |-> FALSE, arr |-> [arr EXCEPT ![r][c] = found.color]]

\* ordered_dither hands image and palette to bayer_dither and drops matrix_size
ordered_dither_algorithm(matrix_size) == "bayer"

Algorithm(c) ==
    IF c.fn = "floyd_steinberg_dither" THEN "floyd_steinberg"
    ELSE IF c.fn = "bayer_dither" THEN "bayer"
    ELSE ordered_dither_algorithm(c.matrix_size)

LoopBody(arr, pal, img, c, row, col) ==
    IF Algorithm(c) = "floyd_steinberg"
    THEN FloydSteinbergPixel(arr, pal, img.width, img.height, row, col)
    ELSE BayerPixel(arr, pal, row, col)

----------------------------------------------------------------------------
(* Spec: one call of a ditherer, pixel by pixel in the order of the loops *)

Init ==
    /\ call \in Calls
    /\ palette \in Palettes
    /\ image \in Images
    /\ img_array = ToFloatArray(image)
    /\ y = 0
    /\ x = 0
    /\ todo = {}
    /\ pc = "scan"
    /\ result = None
    /\ NoPreset

\* one iteration of the inner loop
ScanPixel ==
    /\ pc = "scan"
    /\ y < image.height
    /\ ~LoopBody(img_array, palette, image, call, y, x).raised
    /\ img_array' = LoopBody(img_array, palette, image, call, y, x).arr
    /\ IF x + 1 < image.width
       THEN x' = x + 1 /\ y' = y
       ELSE x' = 0 /\ y' = y + 1
    /\ UNCHANGED <<call, palette, image, todo, pc, result, preset_vars>>

\* _find_closest_color raises: the exception leaves the ditherer
ScanRaises ==
    /\ pc = "scan"
    /\ y < image.height
    /\ LoopBody(img_array, palette, image, call, y, x).raised
    /\ pc' = "raised"
    /\ UNCHANGED <<call, palette, image, img_array, y, x, todo, result, preset_vars>>

\* after the loops: clip, convert, return
Return ==
    /\ pc = "scan"
    /\ y = image.height
    /\ result' = ToUint8Image(image, img_array)
    /\ pc' = "done"
    /\ UNCHANGED <<call, palette, image, img_array, y, x, todo, preset_vars>>

Next == ScanPixel \/ ScanRaises \/ Return

Spec == Init /\ [][Next]_vars

\* the loops run to their end from the k-th pixel on, in the order of lines 144-145 / 175-176
RECURSIVE ScanFrom(_, _, _, _, _)
ScanFrom(arr, pal, img, c, k) ==
    LET step == LoopBody(arr, pal, img, c, k \div img.width, k % img.width)
    IN  IF k >= img.width * img.height \/ step.raised THEN arr
        ELSE ScanFrom(step.arr, pal, img, c, k + 1)

\* what a ditherer returns for a non-empty palette
Dithered(img, pal, c) == ToUint8Image(img, ScanFrom(ToFloatArray(img), pal, img, c, 0))

BayerCall == [fn |-> "bayer_dither", matrix_size |-> 0]

----------------------------------------------------------------------------
(* SpecShuffle: bayer_dither's loop body applied to the pixels in any order *)

InitShuffle ==
    /\ call = BayerCall
    /\ palette \in Palettes \ {EmptyPalette}
    /\ image \in SmallImages
    /\ img_array = ToFloatArray(image)
    /\ y = 0
    /\ x = 0
    /\ todo = Positions(image)
    /\ pc = "scan"
    /\ result = None
    /\ NoPreset

ShufflePixel ==
    /\ pc = "scan"
    /\ \E p \in todo :
          /\ img_array' = BayerPixel(img_array, palette, p[1], p[2]).arr
          /\ todo' = todo \ {p}
    /\ UNCHANGED <<call, palette, image, y, x, pc, result, preset_vars>>

ShuffleReturn ==
    /\ pc = "scan"
    /\ todo = {}
    /\ result' = ToUint8Image(image, img_array)
    /\ pc' = "done"
    /\ UNCHANGED <<call, palette, image, img_array, y, x, todo, preset_vars>>

NextShuffle == ShufflePixel \/ ShuffleReturn

SpecShuffle == InitShuffle /\ [][NextShuffle]_vars

----------------------------------------------------------------------------
(* SpecMatch: one call of _find_closest_color *)

InitMatch ==
    /\ call \in {[fn |-> "_find_closest_color", pixel |-> p] : p \in MatchPixels}
    /\ palette \in Palettes
    /\ image = None
    /\ img_array = None
    /\ y = 0
    /\ x = 0
    /\ todo = {}
    /\ pc = "call"
    /\ result = None
    /\ NoPreset

MatchReturns ==
    /\ pc = "call"
    /\ ~find_closest_color(call.pixel, palette).raised
    /\ result' = find_closest_color(call.pixel, palette).color
    /\ pc' = "done"
    /\ UNCHANGED <<call, palette, image, img_array, y, x, todo, preset_vars>>

MatchRaises ==
    /\ pc = "call"
    /\ find_closest_color(call.pixel, palette).raised
    /\ pc' = "raised"
    /\ UNCHANGED <<call, palette, image, img_array, y, x, todo, result, preset_vars>>

NextMatch == MatchReturns \/ MatchRaises

SpecMatch == InitMatch /\ [][NextMatch]_vars

----------------------------------------------------------------------------
(* resize_image: the float64 arithmetic of lines 121-122                   *)
(*                                                                         *)
(* A non-negative float64 is [digits, e]: digits a natural number in base  *)
(* 2^13, lowest digit first, whose value times 2^(e - 52) is the float.    *)
(* Division and multiplication round to 53 significant bits, to nearest,   *)
(* ties to even, as IEEE 754 does.                                         *)

Base == 2 ^ 13

RECURSIVE Value(_)
Value(ds) == IF ds = << >> THEN 0 ELSE ds[1] + Base * Value(Tail(ds))

RECURSIVE AddSmall(_, _)
AddSmall(ds, v) ==
    IF v = 0 THEN ds
    ELSE IF ds = << >> THEN <<v % Base>> \o AddSmall(<< >>, v \div Base)
    ELSE <<(ds[1] + v) % Base>> \o AddSmall(Tail(ds), (ds[1] + v) \div Base)

RECURSIVE MulSmall(_, _, _)
MulSmall(ds, k, carry) ==
    IF ds = << >>
    THEN IF carry = 0 THEN << >> ELSE <<carry % Base>> \o MulSmall(<< >>, k, carry \div Base)
    ELSE <<(ds[1] * k + carry) % Base>> \o MulSmall(Tail(ds), k, (ds[1] * k + carry) \div Base)

\* the number of bits of n >= 1
BitLen(n) == CHOOSE k \in 1..30 : 2 ^ (k - 1) <= n /\ n < 2 ^ k

\* a / b for integers a, b >= 1: the float64 nearest to the quotient
FloatDiv(a, b) ==
    LET e == IF a >= b
             THEN CHOOSE k \in 0..30 : b * 2 ^ k <= a /\ a < b * 2 ^ (k + 1)
             ELSE 0 - (CHOOSE k \in 1..30 : b <= a * 2 ^ k /\ a * 2 ^ (k - 1) < b)
        n == IF e >= 0 THEN a ELSE a * 2 ^ (0 - e)
        d == IF e >= 0 THEN b * 2 ^ e ELSE b
        r0 == n - d
        d1 == (r0 * Base) \div d
        r1 == (r0 * Base) % d
        d2 == (r1 * Base) \div d
        r2 == (r1 * Base) % d
        d3 == (r2 * Base) \div d
        r3 == (r2 * Base) % d
        d4 == (r3 * Base) \div d
        r4 == (r3 * Base) % d
        up == 2 * r4 > d \/ (2 * r4 = d /\ d4 % 2 = 1)
        exact == <<d4, d3, d2, d1, 1>>
    IN  [digits |-> IF up THEN AddSmall(exact, 1) ELSE exact, e |-> e]

\* k * f for an integer k >= 1 (converted exactly) and a float64 f
FloatMulInt(k, f) ==
    LET p == MulSmall(f.digits, k, 0)
        s == BitLen(Value(SubSeq(p, 5, Len(p)))) - 1
        low == p[1] % 2 ^ s
        odd == IF s < 13 THEN (p[1] \div 2 ^ s) % 2 = 1 ELSE p[2] % 2 = 1
        up == s >= 1 /\ (low > 2 ^ (s - 1) \/ (low = 2 ^ (s - 1) /\ odd))
        cleared == [p EXCEPT ![1] = @ - low]
    IN  [digits |-> IF up THEN AddSmall(cleared, 2 ^ s) ELSE cleared, e |-> f.e]

\* int(f): truncation toward zero of a non-negative float64
IntOfFloat(f) ==
    LET t == 52 - f.e
        j == t \div 13
    IN  IF j >= Len(f.digits) THEN 0
        ELSE Value(SubSeq(f.digits, j + 1, Len(f.digits))) \div 2 ^ (t % 13)

\* the nearest integer to f (halves up), in place of int(f)
RoundedHeight(target_width, width, height) ==
    LET f == FloatMulInt(target_width, FloatDiv(height, width))
        whole == IntOfFloat(f)
        two == IntOfFloat([f EXCEPT !.e = @ + 1])
    IN  IF two % 2 = 1 THEN whole + 1 ELSE whole

\* lines 121-122: int(target_width * (image.height / image.width))
AspectHeight(target_width, width, height) ==
    IntOfFloat(FloatMulInt(target_width, FloatDiv(height, width)))

\* the size resize_image asks Image.resize for
resize_image(img, target_width, target_height, maintain_aspect) ==
    [width |-> target_width,
     height |-> IF target_height = << >>
                THEN IF maintain_aspect
                     THEN AspectHeight(target_width, img.width, img.height)
                     ELSE target_width
                ELSE target_height[1]]

----------------------------------------------------------------------------
(* SpecResize: one call of resize_image; only the sizes are modelled *)

\* image sides and target widths run to MaxDim
MaxDim == 16

\* the Optional[int] target_height: << >> is None, <<n>> is n
GivenHeights == {<< >>, <<7>>}

InitResize ==
    /\ call \in {[fn |-> "resize_image", target_width |-> tw, target_height |-> th,
                   maintain_aspect |-> ma]
                     : tw \in 1..MaxDim, th \in GivenHeights, ma \in BOOLEAN}
    /\ palette = None
    /\ image \in {[width |-> w, height |-> h, px |-> None] : w \in 1..MaxDim, h \in 1..MaxDim}
    /\ img_array = None
    /\ y = 0
    /\ x = 0
    /\ todo = {}
    /\ pc = "call"
    /\ result = None
    /\ NoPreset

Resize ==
    /\ pc = "call"
    /\ result' = resize_image(image, call.target_width, call.target_height,
                              call.maintain_aspect)
    /\ pc' = "done"
    /\ UNCHANGED <<call, palette, image, img_array, y, x, todo, preset_vars>>

NextResize == Resize

SpecResize == InitResize /\ [][NextResize]_vars

----------------------------------------------------------------------------
(* the presets and convert_image *)

\* the Game Boy Camera resolution
CameraWidth == 128
CameraHeight == 112

\* the widths convert_image passes when --width is not given
DotMatrixWidth == 200
RetroWidth == 320

\* str.lower() on the palette names drawn below
Lower(name) == IF name = "C64" THEN "c64" ELSE name

\* palette_map.get(palette.lower(), self.CGA_PALETTE)
RetroPalette(name) ==
    IF Lower(name) = "cga" THEN CGA_PALETTE
    ELSE IF Lower(name) = "apple2" THEN APPLE_II_PALETTE
    ELSE IF Lower(name) = "c64" THEN C64_PALETTE
    ELSE IF Lower(name) = "spectrum" THEN ZX_SPECTRUM_PALETTE
    ELSE CGA_PALETTE

\* the ditherer each preset calls for a dither_method
GameboyDitherSwapped(dither_method) ==
    IF dither_method = "floyd_steinberg" THEN "bayer_dither"
    ELSE IF dither_method = "bayer" THEN "floyd_steinberg_dither"
    ELSE "ordered_dither"
GameboyDither(dither_method) ==
    IF dither_method = "floyd_steinberg" THEN "floyd_steinberg_dither"
    ELSE IF dither_method = "bayer" THEN "bayer_dither"
    ELSE "ordered_dither"

DotMatrixDither(dither_method) ==
    IF dither_method = "floyd_steinberg" THEN "floyd_steinberg_dither"
    ELSE IF dither_method = "bayer" THEN "bayer_dither"
    ELSE "ordered_dither"

RetroDither(dither_method) ==
    IF dither_method = "floyd_steinberg" THEN "floyd_steinberg_dither"
    ELSE IF dither_method = "bayer" THEN "bayer_dither"
    ELSE "ordered_dither"

\* the preset call convert_image makes for its options (lines 77-113); a call
\* that enters a preset or ordered_dither directly is that call
PresetCall(c) ==
    IF c.fn # "convert_image" THEN c
    ELSE IF c.style = "gameboy"
    THEN [c EXCEPT !.fn = "convert_to_gameboy_camera"]
    ELSE IF c.style = "dotmatrix"
    THEN [c EXCEPT !.fn = "convert_to_dot_matrix",
                   !.width = IF c.width = << >> THEN <<DotMatrixWidth>> ELSE c.width]
    ELSE [c EXCEPT !.fn = "convert_to_retro_color",
                   !.width = IF c.width = << >> THEN <<RetroWidth>> ELSE c.width]

\* the size the preset's resize_image call gives; enhance_contrast keeps it
PresetResizeWide(c, img) ==
    IF c.fn = "convert_to_gameboy_camera"
    THEN resize_image(img, CameraWidth, << >>, FALSE)
    ELSE IF c.fn \in {"convert_to_dot_matrix", "convert_to_retro_color"}
    THEN resize_image(img, c.width[1], << >>, TRUE)
    ELSE [width |-> img.width, height |-> img.height]
PresetResize(c, img) ==
    IF c.fn = "convert_to_gameboy_camera"
    THEN resize_image(img, CameraWidth, <<CameraHeight>>, FALSE)
    ELSE IF c.fn \in {"convert_to_dot_matrix", "convert_to_retro_color"}
    THEN resize_image(img, c.width[1], << >>, TRUE)
    ELSE [width |-> img.width, height |-> img.height]

\* the palette the preset passes on
PresetPalette(c) ==
    IF c.fn = "convert_to_gameboy_camera" THEN GAMEBOY_PALETTE
    ELSE IF c.fn = "convert_to_dot_matrix" THEN DOT_MATRIX_PALETTE
    ELSE IF c.fn = "convert_to_retro_color" THEN RetroPalette(c.palette)
    ELSE DOT_MATRIX_PALETTE

\* the ditherer the call enters first
PresetDither(c) ==
    IF c.fn = "convert_to_gameboy_camera" THEN GameboyDither(c.dither)
    ELSE IF c.fn = "convert_to_dot_matrix" THEN DotMatrixDither(c.dither)
    ELSE IF c.fn = "convert_to_retro_color" THEN RetroDither(c.dither)
    ELSE c.fn

\* presets call ordered_dither with its default matrix_size
DefaultMatrixSize == 4
DitherCall(c) ==
    [fn |-> PresetDither(c),
     matrix_size |-> IF c.fn = "ordered_dither" THEN c.matrix_size ELSE DefaultMatrixSize]

\* the loop body of the ditherer on the pixel value p at (row, col): the colour stored
StoredColour(c, pal, p, row, col) ==
    IF Algorithm(DitherCall(c)) = "floyd_steinberg"
    THEN find_closest_color(p, pal).color
    ELSE BayerStored(p, pal, row, col).color

----------------------------------------------------------------------------
(* SpecPreset: a preset (called directly or by convert_image) or            *)
(* ordered_dither, on an image of which only the size is kept. Image.resize *)
(* and enhance_contrast are the library's: the pixel each loop iteration    *)
(* reads is any of StreamPixels, and only the last iteration is kept.       *)

\* preset widths run to MaxWidth
MaxWidth == 2

SourceSizes == {<<1, 2>>, <<2, 1>>, <<3, 2>>}

\* float64 pixel values an iteration may read, in sixteenths
StreamPixels == {<<255 * Scale, 255 * Scale, 255 * Scale>>, <<200 * Scale, 30 * Scale, 60 * Scale>>}

DitherMethods == {"floyd_steinberg", "bayer", "ordered"}

Entry(fn, style, dither, width, height, pal, matrix_size) ==
    [fn |-> fn, style |-> style, dither |-> dither, width |-> width, height |-> height,
     palette |-> pal, matrix_size |-> matrix_size]

PresetEntries ==
    {Entry("convert_to_gameboy_camera", "", d, << >>, << >>, "", 0)
        : d \in DitherMethods \cup {"none"}}
    \cup {Entry("convert_to_dot_matrix", "", d, <<w>>, << >>, "", 0)
        : d \in DitherMethods \cup {"none"}, w \in 1..MaxWidth}
    \cup {Entry("convert_to_retro_color", "", d, <<w>>, << >>, n, 0)
        : d \in DitherMethods \cup {"none"}, w \in 1..MaxWidth,
          n \in {"cga", "apple2", "C64", "spectrum", "ega"}}
    \cup {Entry("ordered_dither", "", "", << >>, << >>, "", m) : m \in MatrixSizes}
    \cup {Entry("convert_image", "gameboy", d, wh[1], wh[2], "cga", 0)
        : d \in DitherMethods, wh \in {<<<< >>, << >>>>, <<<<64>>, <<48>>>>}}
    \cup {Entry("convert_image", st, d, <<w>>, << >>, n, 0)
        : st \in {"dotmatrix", "retro"}, d \in DitherMethods, w \in 1..MaxWidth,
          n \in {"cga", "spectrum"}}

InitPreset ==
    /\ call \in PresetEntries
    /\ palette = None
    /\ image \in {[width |-> sz[1], height |-> sz[2], px |-> None] : sz \in SourceSizes}
    /\ img_array = None
    /\ y = 0
    /\ x = 0
    /\ todo = {}
    /\ pc = IF call.fn = "convert_image" THEN "cli" ELSE "preset"
    /\ result = None
    /\ enhanced = None
    /\ chain = <<call.fn>>
    /\ iteration = None

\* convert_image: the style's branch calls its preset
ConvertImage ==
    /\ pc = "cli"
    /\ chain' = Append(chain, PresetCall(call).fn)
    /\ pc' = "preset"
    /\ UNCHANGED <<call, palette, image, img_array, y, x, todo, result, enhanced, iteration>>

\* resize_image and enhance_contrast, then the branch on dither_method
PresetDispatch ==
    /\ pc = "preset"
    /\ PresetResize(PresetCall(call), image).height >= 1
    /\ enhanced' = PresetResize(PresetCall(call), image)
    /\ palette' = PresetPalette(PresetCall(call))
    /\ chain' = chain \o (IF PresetDither(PresetCall(call)) = PresetCall(call).fn THEN << >>
                           ELSE <<PresetDither(PresetCall(call))>>)
                      \o (IF PresetDither(PresetCall(call)) = "ordered_dither"
                          THEN <<"bayer_dither">> ELSE << >>)
    /\ pc' = "scan"
    /\ UNCHANGED <<call, image, img_array, y, x, todo, result, iteration>>

\* the aspect-preserving height is 0: what Image.resize does with it is the library's
PresetEmptySize ==
    /\ pc = "preset"
    /\ PresetResize(PresetCall(call), image).height < 1
    /\ pc' = "empty"
    /\ UNCHANGED <<call, palette, image, img_array, y, x, todo, result, enhanced, chain, iteration>>

\* one iteration of the ditherer's inner loop
StreamPixel ==
    /\ pc = "scan"
    /\ y < enhanced.height
    /\ \E p \in StreamPixels :
          iteration' = [y |-> y, x |-> x, read |-> p,
                    stored |-> StoredColour(PresetCall(call), palette, p, y, x)]
    /\ IF x + 1 < enhanced.width
       THEN x' = x + 1 /\ y' = y
       ELSE x' = 0 /\ y' = y + 1
    /\ UNCHANGED <<call, palette, image, img_array, todo, pc, result, enhanced, chain>>

\* the ditherer returns an image of the array's shape
StreamReturn ==
    /\ pc = "scan"
    /\ y = enhanced.height
    /\ result' = [width |-> enhanced.width, height |-> enhanced.height]
    /\ pc' = "done"
    /\ UNCHANGED <<call, palette, image, img_array, y, x, todo, enhanced, chain, iteration>>

NextPreset == ConvertImage \/ PresetDispatch \/ PresetEmptySize \/ StreamPixel \/ StreamReturn

SpecPreset == InitPreset /\ [][NextPreset]_vars

----------------------------------------------------------------------------
(* Claims checked under Spec *)

InPalette(colour, pal) == \E i \in 1..Len(pal) : pal[i] = colour

\* C1 (palette closure): every pixel of the image a ditherer returns equals,
\* in all three channels, one entry of the palette it was given.
C1_PaletteClosure ==
    pc = "done" =>
        \A p \in Positions(image) : InPalette(result.px[p[1]][p[2]], palette)

\* a Floyd-Steinberg call has returned an image that differs from its input
C1_Witness ==
    /\ pc = "done"
    /\ call.fn = "floyd_steinberg_dither"
    /\ palette = GAMEBOY_PALETTE
    /\ image.width = 2 /\ image.height = 2
    /\ \A p \in Positions(image) : result.px[p[1]][p[2]] # image.px[p[1]][p[2]]

Gray(v) == <<v, v, v>>

Scenario1 ==
    /\ call.fn = "floyd_steinberg_dither"
    /\ palette = DOT_MATRIX_PALETTE
    /\ image = Uniform(2, 2, Gray(128))

Scenario2 ==
    /\ call.fn = "bayer_dither"
    /\ palette = GAMEBOY_PALETTE
    /\ image = Uniform(4, 4, Gray(255))

\* C4 as stated: scenario 2 returns the lightest entry at all 16 positions.
C4_Original ==
    (Scenario2 /\ pc = "done") =>
        \A p \in Positions(image) : result.px[p[1]][p[2]] = GAMEBOY_PALETTE[4]

\* C4 (amended): scenario 2 returns the lightest entry (155,188,15) exactly at
\* the 13 positions whose threshold weight is at least 3/16; at weight 0 it
\* returns (48,98,48) and at weights 1/16 and 2/16 it returns (139,172,15).
C4_Scenario2 ==
    (Scenario2 /\ pc = "done") =>
        \A p \in Positions(image) :
            LET k == bayer_matrix_4x4[p[1]][p[2]]
            IN  result.px[p[1]][p[2]] =
                    IF k = 0 THEN GAMEBOY_PALETTE[2]
                    ELSE IF k \in {1, 2} THEN GAMEBOY_PALETTE[3]
                    ELSE GAMEBOY_PALETTE[4]

\* bayer_dither has returned in scenario 2
C4_Witness == Scenario2 /\ pc = "done"

\* C7 (empty palette): with an empty palette the colour match raises and
\* returns no colour, so a ditherer given a buffer with at least one pixel
\* stores nothing, never returns an image, and ends in the error.
C7_EmptyPalette ==
    (Len(palette) = 0 /\ image.width * image.height >= 1) =>
        /\ find_closest_color(img_array[y][x], palette).raised
        /\ img_array = ToFloatArray(image)
        /\ y = 0 /\ x = 0
        /\ pc \in {"scan", "raised"}
        /\ result = None

\* a Floyd-Steinberg call with an empty palette has ended in the error
C7_Witness ==
    /\ Len(palette) = 0
    /\ call.fn = "floyd_steinberg_dither"
    /\ pc = "raised"

\* the Floyd-Steinberg weight, in sixteenths, of the target (dr, dc) away
Weight(dr, dc) ==
    IF dr = 0 /\ dc = 1 THEN 7
    ELSE IF dr = 1 /\ dc = -1 THEN 3
    ELSE IF dr = 1 /\ dc = 0 THEN 5
    ELSE IF dr = 1 /\ dc = 1 THEN 1
    ELSE 0

\* C10 (propagation step): a Floyd-Steinberg step at (x,y) moves the cursor
\* to the next pixel in raster order and adds error = accumulator - quantized
\* colour to (x+1,y), (x-1,y+1), (x,y+1), (x+1,y+1) with weights 7, 3, 5, 1
\* sixteenths where these lie inside the buffer, and changes no other pixel.
C10_Propagation ==
    [][(pc = "scan" /\ pc' = "scan" /\ call.fn = "floyd_steinberg_dither") =>
          /\ <<y', x'>> = IF x + 1 < image.width THEN <<y, x + 1>> ELSE <<y + 1, 0>>
          /\ \A p \in Positions(image) \ {<<y, x>>} : \A ch \in 1..3 :
                16 * (img_array'[p[1]][p[2]][ch] - img_array[p[1]][p[2]][ch])
                  = Weight(p[1] - y, p[2] - x) * (img_array[y][x][ch] - img_array'[y][x][ch])
      ]_vars

----------------------------------------------------------------------------
(* Claims checked under SpecShuffle *)

\* C5 (ordered-dither independence): whatever the order in which bayer_dither's
\* loop body is applied to the pixels, every pixel already processed holds what
\* the row-major scan gives it, the others their input, and the image returned
\* is the one the row-major scan returns.
C5_OrderIndependent ==
    LET raster == ScanFrom(ToFloatArray(image), palette, image, call, 0)
    IN  /\ \A p \in Positions(image) :
              img_array[p[1]][p[2]] =
                  IF p \in todo THEN ToFloatArray(image)[p[1]][p[2]]
                  ELSE raster[p[1]][p[2]]
        /\ pc = "done" => result = Dithered(image, palette, call)

\* a 2x2 image was processed starting from its last pixel, the first still to do
C5_Witness ==
    /\ image.width = 2 /\ image.height = 2
    /\ todo = {<<0, 0>>}
    /\ img_array[1][1] # ToFloatArray(image)[1][1]

----------------------------------------------------------------------------
(* Claims checked under SpecMatch *)

\* C2 (tie-break): _find_closest_color returns the entry of minimum squared
\* distance to the pixel, and among several entries at that distance the one
\* listed first.
C2_FirstMinimum ==
    pc = "done" =>
        LET nearest == {i \in 1..Len(palette) :
                          \A j \in 1..Len(palette) :
                              Distance(call.pixel, palette[i]) <= Distance(call.pixel, palette[j])}
            first == CHOOSE i \in nearest : \A j \in nearest : i <= j
        IN  result = <<palette[first][1] * Scale, palette[first][2] * Scale,
                       palette[first][3] * Scale>>

\* (100,100,100) matched against two equidistant entries gave the first
C2_Witness ==
    /\ pc = "done"
    /\ call.pixel = Gray(100 * Scale)
    /\ palette = TiePalette
    /\ Distance(call.pixel, palette[1]) = Distance(call.pixel, palette[2])
    /\ result = <<90 * Scale, 100 * Scale, 100 * Scale>>

----------------------------------------------------------------------------
(* Claims checked under SpecResize *)

HeightOmitted == pc = "done" /\ call.target_height = << >>

\* C6 as stated: with the height omitted and maintain_aspect true the height
\* is targetWidth x originalHeight / originalWidth rounded to a nearest
\* integer; with maintain_aspect false it is targetWidth.
C6_Original ==
    HeightOmitted =>
        IF call.maintain_aspect
        THEN LET diff == result.height * image.width - call.target_width * image.height
             IN  2 * diff <= image.width /\ 2 * (0 - diff) <= image.width
        ELSE result.height = call.target_width

\* C6 (amended): with the height omitted and maintain_aspect true the height
\* is the float64 product targetWidth x (originalHeight / originalWidth)
\* truncated toward zero: floor(targetWidth x originalHeight / originalWidth)
\* whenever that quotient is not an integer, and the quotient or one less
\* when it is (one less when the float64 product falls just below it, as for
\* width 11 on an 11x15 image: 14); with maintain_aspect false it is
\* targetWidth. The width used is targetWidth.
C6_TruncatedHeight ==
    HeightOmitted =>
        /\ result.width = call.target_width
        /\ IF call.maintain_aspect
           THEN LET floor == (call.target_width * image.height) \div image.width
                    whole == (call.target_width * image.height) % image.width = 0
                IN  /\ result.height <= floor
                    /\ result.height >= floor - 1
                    /\ ~whole => result.height = floor
                    /\ (call.target_width = 11 /\ image.width = 11 /\ image.height = 15)
                          => result.height = 14
           ELSE result.height = call.target_width

\* width 10 asked of a 3x2 image: 10 x (2/3) = 6.67 has given height 6
C6_Witness ==
    /\ HeightOmitted
    /\ call.maintain_aspect
    /\ call.target_width = 10
    /\ image.width = 3 /\ image.height = 2
    /\ result.height = 6

----------------------------------------------------------------------------
(* Claims checked under SpecPreset *)

IsDitherer(name) == name \in {"floyd_steinberg_dither", "bayer_dither", "ordered_dither"}

Dispatched == pc \in {"scan", "done"}

\* some loop iteration has run
Iterated == Dispatched /\ (y > 0 \/ x > 0)

Unscaled(colour) == <<colour[1] \div Scale, colour[2] \div Scale, colour[3] \div Scale>>

IsCamera == PresetCall(call).fn = "convert_to_gameboy_camera"

====
